---- MODULE Spec2Model ----
(***************************************************************************)
(* Discrete-latent autoencoders of pl_dalle/models (vqgan.py, vqvae.py):   *)
(* the training / validation steps a training-loop driver invokes, and the *)
(* encode / decode / get_codebook_indices calls.                           *)
(*                                                                         *)
(* Numbers.  A temperature is a fixed-point number with FracBits binary    *)
(* fraction digits: the integer t stands for t / 2^FracBits, so One stands *)
(* for 1.0.  anneal_rate is counted in units of ln 2, so that              *)
(* exp(-anneal_rate * global_step) = 2^-(anneal_rate * global_step); all   *)
(* configured temperatures are powers of two and temp_min is at least one  *)
(* unit, which makes temperature * exp(..) followed by max(.., temp_min)   *)
(* exact in this representation (a product below one unit is below         *)
(* temp_min).                                                              *)
(***************************************************************************)
EXTENDS Integers, Sequences, FiniteSets, TLC

VARIABLES
    cls,          \* class of the model instance
    args,         \* its hyper-parameters (self.args)
    temperature,  \* self.temperature
    qtemp,        \* self.quantize.temperature
    global_step,  \* self.global_step, advanced by the driver
    phase,        \* optimizer_idx the driver supplies next for the current batch
    cur_x,        \* the batch being processed
    last,         \* the handler that ran last
    fwd,          \* forward passes run for the current batch / validation step
    tset,         \* values assigned to self.temperature for the current batch
    out,          \* values returned by the step invocations of the current batch
    training,     \* self.training (nn.Module mode)
    codebook,     \* self.quantize.embedding.weight: one vector per code index
    arg,          \* the tensor the caller holds: an image batch or a token sequence
    ret           \* the last encode / decode / get_codebook_indices call and its result

stepvars == <<temperature, qtemp, global_step, phase, cur_x, last, fwd, tset, out>>
codecvars == <<training, codebook, arg, ret>>
vars == <<cls, args, stepvars, codecvars>>

-----------------------------------------------------------------------------
(* Bounds *)
FracBits == 3
MaxGlobalStep == 3
NumBatches == 2
NumNoise == 2
MaxBatch == 2
MaxSide == 2
MaxCells == 4
MaxSeqCells == 4

One == 2 ^ FracBits
Unset == 0 - 1

Max(a, b) == IF a >= b THEN a ELSE b

Batches == 1 .. NumBatches
Noise == 1 .. NumNoise

StartingTemps == {One \div 2, One, 2 * One}
TempMins == {1, One \div 2}
AnnealRates == {0, 1, 2}

GumbelClasses == {"GumbelVQGAN", "GumbelVQVAE"}
TwoOptimizerClasses == {"VQGAN", "EMAVQGAN", "GumbelVQGAN"}
Classes == TwoOptimizerClasses \cup {"GumbelVQVAE"}

ArgsSet == [starting_temp : StartingTemps, temp_min : TempMins,
            anneal_rate : AnnealRates, log_images : BOOLEAN,
            smooth_l1_loss : BOOLEAN]

-----------------------------------------------------------------------------
(* Pure helpers *)

\* self(x): encode + quantize + decode.  The quantizer reads its temperature;
\* noise is the draw of the stochastic parts (Gumbel sample, dropout).
forward(x, quantize_temperature, noise) ==
    [dec  |-> [of |-> "xrec", x |-> x, temp |-> quantize_temperature, noise |-> noise],
     diff |-> [of |-> "qloss", x |-> x, temp |-> quantize_temperature, noise |-> noise]]

\* self.loss(qloss, x, xrec, optimizer_idx, global_step, last_layer, split)
self_loss(qloss, x, xrec, optimizer_idx, step, split) ==
    [op |-> "CompositeLoss",
     mode |-> IF optimizer_idx = 0 THEN "AUTOENCODER" ELSE "DISCRIMINATOR",
     qloss |-> qloss, x |-> x, xrec |-> xrec, step |-> step, split |-> split]

\* aeloss + qloss
Add(a, b) == [op |-> "add", lhs |-> a, rhs |-> b]

\* if self.args.log_images: return {'loss': loss, 'x': x, 'xrec': xrec}; return loss
Returned(loss, x, xrec) ==
    IF args.log_images THEN [op |-> "dict", loss |-> loss, x |-> x, xrec |-> xrec]
    ELSE loss

\* StepLoss with the quantization loss left out of the optimizer-0 target
C4_Mut_StepLoss(optimizer_idx, x, xrec, qloss, step) ==
    self_loss(qloss, x, xrec, optimizer_idx, step, "train")

\* lines 90-105 / 211-225: the loss target of one training_step invocation
StepLoss(optimizer_idx, x, xrec, qloss, step) ==
    IF optimizer_idx = 0
    THEN Add(self_loss(qloss, x, xrec, optimizer_idx, step, "train"), qloss)
    ELSE self_loss(qloss, x, xrec, optimizer_idx, step, "train")

\* the decay without the floor
C11_Mut_Anneal(temp, anneal_rate, step, temp_min) ==
    temp \div (2 ^ (anneal_rate * step))

\* max(self.temperature * math.exp(-self.anneal_rate * self.global_step), self.temp_min)
Anneal(temp, anneal_rate, step, temp_min) ==
    Max(temp \div (2 ^ (anneal_rate * step)), temp_min)

-----------------------------------------------------------------------------
(* Construction *)

Init ==
    /\ cls \in Classes
    /\ args \in ArgsSet
    /\ temperature = IF cls = "GumbelVQGAN" THEN args.starting_temp ELSE Unset
    /\ qtemp = IF cls \in GumbelClasses THEN args.starting_temp ELSE Unset
    /\ global_step = 0
    /\ phase = 0
    /\ cur_x = 1
    /\ last = "init"
    /\ fwd = <<>>
    /\ tset = <<>>
    /\ out = <<>>
    /\ training = TRUE
    /\ codebook = <<>>
    /\ arg = [shape |-> <<>>, data |-> <<>>]
    /\ ret = [op |-> "none"]

-----------------------------------------------------------------------------
(* The driver's bookkeeping around one training_step invocation: a batch   *)
(* goes through optimizer_idx 0 then 1, and global_step advances when the  *)
(* batch is done.                                                          *)

BatchOf(x) == IF phase = 0 THEN x ELSE cur_x
Fresh(s) == IF phase = 0 THEN <<>> ELSE s

Driver(x) ==
    /\ global_step < MaxGlobalStep
    /\ cur_x' = BatchOf(x)
    /\ phase' = 1 - phase
    /\ global_step' = IF phase = 1 THEN global_step + 1 ELSE global_step
    /\ last' = "training_step"
    /\ UNCHANGED codecvars

\* VQGAN.training_step (also EMAVQGAN, which inherits it)
VQGAN_training_step(x, noise) ==
    /\ cls \in {"VQGAN", "EMAVQGAN"}
    /\ Driver(x)
    /\ LET b == BatchOf(x)
           f == forward(b, qtemp, noise)
       IN /\ fwd' = Append(Fresh(fwd), [x |-> b, temp |-> qtemp, before |-> qtemp,
                                        noise |-> noise, step |-> global_step,
                                        training |-> TRUE])
          /\ out' = Append(Fresh(out),
                           [optimizer_idx |-> phase,
                            qloss |-> f.diff,
                            xrec |-> f.dec,
                            ret |-> Returned(StepLoss(phase, b, f.dec, f.diff, global_step),
                                             b, f.dec)])
    /\ tset' = Fresh(tset)
    /\ UNCHANGED <<cls, args, temperature, qtemp>>

\* line 208 left out: the quantizer keeps the temperature it had
C9_Mut_LiveTemperature(self_temperature, quantize_temperature) == quantize_temperature

\* line 208: self.quantize.temperature = self.temperature
LiveTemperature(self_temperature, quantize_temperature) == self_temperature

\* GumbelVQGAN.training_step: anneal (207), write the quantizer (208), self(x) (209)
GumbelVQGAN_training_step(x, noise) ==
    /\ cls = "GumbelVQGAN"
    /\ Driver(x)
    /\ LET b == BatchOf(x)
           t == Anneal(temperature, args.anneal_rate, global_step, args.temp_min)
           q == LiveTemperature(t, qtemp)
           f == forward(b, q, noise)
       IN /\ temperature' = t
          /\ qtemp' = q
          /\ tset' = Append(Fresh(tset), t)
          /\ fwd' = Append(Fresh(fwd), [x |-> b, temp |-> q, before |-> qtemp,
                                        noise |-> noise, step |-> global_step,
                                        training |-> TRUE])
          /\ out' = Append(Fresh(out),
                           [optimizer_idx |-> phase,
                            qloss |-> f.diff,
                            xrec |-> f.dec,
                            ret |-> Returned(StepLoss(phase, b, f.dec, f.diff, global_step),
                                             b, f.dec)])
    /\ UNCHANGED <<cls, args>>

\* F.smooth_l1_loss(x, xrec, ..) / F.mse_loss(x, xrec, ..)
rec_loss(x, xrec) ==
    [op |-> IF args.smooth_l1_loss THEN "smooth_l1_loss" ELSE "mse_loss",
     x |-> x, xrec |-> xrec]

\* the loss of VQGAN.validation_step: both phases are computed, aeloss + qloss returned
ValLoss(x, xrec, qloss, step) ==
    Add(self_loss(qloss, x, xrec, 0, step, "val"), qloss)

\* the driver runs validation between batches, never between the two phases of one
Validating ==
    /\ phase = 0
    /\ last' = "validation_step"
    /\ tset' = <<>>
    /\ UNCHANGED <<cls, args, temperature, global_step, phase, cur_x, codecvars>>

\* VQGAN.validation_step (also EMAVQGAN)
VQGAN_validation_step(x, noise) ==
    /\ cls \in {"VQGAN", "EMAVQGAN"}
    /\ Validating
    /\ LET f == forward(x, qtemp, noise)
       IN /\ fwd' = <<[x |-> x, temp |-> qtemp, before |-> qtemp, noise |-> noise,
                       step |-> global_step, training |-> FALSE]>>
          /\ out' = <<[qloss |-> f.diff, xrec |-> f.dec,
                       ret |-> Returned(ValLoss(x, f.dec, f.diff, global_step), x, f.dec)]>>
    /\ UNCHANGED qtemp

\* GumbelVQGAN.validation_step: the quantizer's temperature is set, then self(x) runs
GumbelVQGAN_validation_step(x, noise) ==
    /\ cls = "GumbelVQGAN"
    /\ Validating
    /\ qtemp' = One
    /\ LET f == forward(x, qtemp', noise)
       IN /\ fwd' = <<[x |-> x, temp |-> qtemp', before |-> qtemp, noise |-> noise,
                       step |-> global_step, training |-> FALSE]>>
          /\ out' = <<[qloss |-> f.diff, xrec |-> f.dec,
                       ret |-> Returned(ValLoss(x, f.dec, f.diff, global_step), x, f.dec)]>>

\* GumbelVQVAE.training_step: line 175 reads self.temperature, which no __init__ of
\* the class or of VQVAE assigns; the read raises and nothing is written.
GumbelVQVAE_training_step(x) ==
    /\ cls = "GumbelVQVAE"
    /\ phase = 0
    /\ last' = "training_step"
    /\ fwd' = <<>>
    /\ tset' = <<>>
    /\ out' = <<[raised |-> "AttributeError", x |-> x]>>
    /\ UNCHANGED <<cls, args, temperature, qtemp, global_step, phase, cur_x, codecvars>>

\* GumbelVQVAE.validation_step: self(x) runs, then the quantizer's temperature is set
GumbelVQVAE_validation_step(x, noise) ==
    /\ cls = "GumbelVQVAE"
    /\ Validating
    /\ LET f == forward(x, qtemp, noise)
       IN /\ fwd' = <<[x |-> x, temp |-> qtemp, before |-> qtemp, noise |-> noise,
                       step |-> global_step, training |-> FALSE]>>
          /\ out' = <<[qloss |-> f.diff, xrec |-> f.dec,
                       ret |-> Add(rec_loss(x, f.dec), f.diff)]>>
    /\ qtemp' = One

Next ==
    \E x \in Batches, noise \in Noise :
        \/ VQGAN_training_step(x, noise)
        \/ GumbelVQGAN_training_step(x, noise)
        \/ VQGAN_validation_step(x, noise)
        \/ GumbelVQGAN_validation_step(x, noise)
        \/ GumbelVQVAE_training_step(x)
        \/ GumbelVQVAE_validation_step(x, noise)

Spec == Init /\ [][Next]_vars

-----------------------------------------------------------------------------
(* Tensors.  A tensor is its shape and its elements in row-major order, as *)
(* a contiguous torch tensor holds them; positions count from 0, sequence  *)
(* indices from 1.  Feature and codebook values are fixed-point numbers in *)
(* units of 1 / Unit, Unit being divisible by every count of positions a   *)
(* batch can have, so that the mean of the vectors assigned to a code is   *)
(* exact.                                                                  *)

RECURSIVE Gcd(_, _)
Gcd(a, b) == IF b = 0 THEN a ELSE Gcd(b, a % b)
RECURSIVE LcmUpTo(_)
LcmUpTo(n) == IF n <= 1 THEN 1 ELSE LET m == LcmUpTo(n - 1) IN (m * n) \div Gcd(m, n)
Unit == LcmUpTo(MaxCells)

\* (data \o <<>> is data, held as a sequence)
Tensor(shape, data) == [shape |-> shape, data |-> data \o <<>>]
NoTensor == Tensor(<<>>, <<>>)

Pixels == {0, 1}                                \* image values, in [0, 1]
CodeVectors == {<<0 - Unit, Unit>>, <<Unit, 0 - Unit>>}
Tokens == {0, 1}                                \* code indices 0 .. num_tokens - 1
num_tokens == Cardinality(Tokens)
codebook_dim == Len(CHOOSE v \in CodeVectors : TRUE)
Codebooks == [1 .. num_tokens -> CodeVectors]

\* images: batches of b square one-channel images, shape (b, 1, s, s)
ImageShapes ==
    {sh \in (1 .. MaxBatch) \X {1} \X (1 .. MaxSide) \X (1 .. MaxSide) :
        sh[3] = sh[4] /\ sh[1] * sh[3] * sh[4] <= MaxCells}
Images ==
    UNION {{Tensor(sh, d) : d \in [1 .. (sh[1] * sh[3] * sh[4]) -> Pixels]} :
           sh \in ImageShapes}

\* token sequences (img_seq): shape (b, n)
SeqShapes ==
    {sh \in (1 .. MaxBatch) \X (1 .. MaxSeqCells) : sh[1] * sh[2] <= MaxSeqCells}
TokenSeqs ==
    UNION {{Tensor(sh, d) : d \in [1 .. (sh[1] * sh[2]) -> Tokens]} : sh \in SeqShapes}

\* self.quant_conv(self.encoder(x)): the networks are black boxes; this stand-in
\* keeps the spatial size and gives channel c of a position the pixel with
\* alternating sign, so that different pixels give different feature vectors.
Features(x, channels) ==
    LET b == x.shape[1]
        hw == x.shape[3] * x.shape[4]
    IN Tensor(<<b, channels, x.shape[3], x.shape[4]>>,
              [f \in 1 .. (b * channels * hw) |->
                  LET i == (f - 1) \div (channels * hw)
                      c == ((f - 1) \div hw) % channels
                      pos == (f - 1) % hw
                  IN (IF c % 2 = 0 THEN Unit ELSE 0 - Unit) * x.data[i * hw + pos + 1]])

\* the feature vector at position pos of image i of a (b, c, h, w) grid
VectorAt(z, i, pos) ==
    LET ch == z.shape[2]
        hw == z.shape[3] * z.shape[4]
    IN [c \in 1 .. ch |-> z.data[(i * ch + (c - 1)) * hw + pos + 1]] \o <<>>

RECURSIVE SumSq(_, _, _)
SumSq(v, e, c) == IF c = 0 THEN 0 ELSE (v[c] - e[c]) * (v[c] - e[c]) + SumSq(v, e, c - 1)

\* squared Euclidean distance
Dist2(v, e) == SumSq(v, e, Len(e))

\* nearest codebook entry, the first one among equals
NearestCode(v, book) ==
    CHOOSE k \in 0 .. (Len(book) - 1) :
        \A j \in 0 .. (Len(book) - 1) :
            /\ Dist2(v, book[k + 1]) <= Dist2(v, book[j + 1])
            /\ (j < k => Dist2(v, book[k + 1]) < Dist2(v, book[j + 1]))

\* the largest logit, the first one among equals
ArgMax(v) ==
    CHOOSE k \in 0 .. (Len(v) - 1) :
        \A j \in 0 .. (Len(v) - 1) :
            /\ v[k + 1] >= v[j + 1]
            /\ (j < k => v[k + 1] > v[j + 1])

\* per-position nearest-entry indices of a (b, c, h, w) grid, flat, in (b h w) order
NearestIndices(z, book) ==
    LET hw == z.shape[3] * z.shape[4]
    IN Tensor(<<z.shape[1] * hw>>,
              [p \in 1 .. (z.shape[1] * hw) |->
                  NearestCode(VectorAt(z, (p - 1) \div hw, (p - 1) % hw), book)])

\* per-position argmax indices of a (b, c, h, w) grid of logits, flat, in (b h w) order
ArgMaxIndices(z) ==
    LET hw == z.shape[3] * z.shape[4]
    IN Tensor(<<z.shape[1] * hw>>,
              [p \in 1 .. (z.shape[1] * hw) |->
                  ArgMax(VectorAt(z, (p - 1) \div hw, (p - 1) % hw))])

\* the grid of codebook entries for flat indices: shape (b, codebook_dim, h, w)
Snapped(indices, book, b, h, w) ==
    LET d == Len(book[1])
    IN Tensor(<<b, d, h, w>>,
              [f \in 1 .. (b * d * h * w) |->
                  LET i == (f - 1) \div (d * h * w)
                      c == ((f - 1) \div (h * w)) % d
                      pos == (f - 1) % (h * w)
                  IN book[indices.data[i * h * w + pos + 1] + 1][c + 1]])

\* VectorQuantizer / EMAVectorQuantizer forward: nearest entry per position
\* (the EMA update of the entries is part of the Encode action)
VectorQuantizer(z, book) ==
    LET indices == NearestIndices(z, book)
    IN [quant |-> Snapped(indices, book, z.shape[1], z.shape[3], z.shape[4]),
        indices |-> indices]

\* GumbelQuantizer forward in evaluation mode: hard argmax of the logits
GumbelQuantizer(z, book) ==
    LET indices == ArgMaxIndices(z)
    IN [quant |-> Snapped(indices, book, z.shape[1], z.shape[3], z.shape[4]),
        indices |-> indices]

\* self.encode(x): encoder, quant_conv, quantize
encode(x, book) ==
    IF cls = "GumbelVQGAN"
    THEN GumbelQuantizer(Features(x, num_tokens), book)
    ELSE VectorQuantizer(Features(x, codebook_dim), book)

\* img = (2 * img) - 1
Normalized(img) == Tensor(img.shape, [k \in DOMAIN img.data |-> 2 * img.data[k] - 1])

\* indices.view(b, n): the same elements under a new shape
View(t, b, n) ==
    IF b * n = Len(t.data)
    THEN [raised |-> "", value |-> Tensor(<<b, n>>, t.data)]
    ELSE [raised |-> "RuntimeError", value |-> NoTensor]

\* self.quantize.embedding(img_seq): (b, n) -> (b, n, d)
embedding(img_seq, book) ==
    LET d == Len(book[1])
    IN Tensor(<<img_seq.shape[1], img_seq.shape[2], d>>,
              [f \in 1 .. (Len(img_seq.data) * d) |->
                  book[img_seq.data[((f - 1) \div d) + 1] + 1][((f - 1) % d) + 1]])

\* int(math.sqrt(n))
IntSqrt(n) == CHOOSE r \in 0 .. n : r * r <= n /\ (r + 1) * (r + 1) > n

\* 'b (h w) d -> b d h w' read with h and w exchanged
C6_Mut_rearrange(e, h, w) ==
    LET b == e.shape[1]
        n == e.shape[2]
        d == e.shape[3]
    IN IF h * w # n
       THEN [raised |-> "EinopsError", value |-> NoTensor]
       ELSE [raised |-> "",
             value |-> Tensor(<<b, d, h, w>>,
                 [f \in 1 .. (b * d * h * w) |->
                     LET i == (f - 1) \div (d * h * w)
                         c == ((f - 1) \div (h * w)) % d
                         y == ((f - 1) \div w) % h
                         xx == (f - 1) % w
                     IN e.data[(i * n + xx * h + y) * d + c + 1]])]

\* a reshape that keeps the first h * w tokens of each image instead of failing
C7_Mut_rearrange(e, h, w) ==
    LET b == e.shape[1]
        n == e.shape[2]
        d == e.shape[3]
    IN [raised |-> "",
        value |-> Tensor(<<b, d, h, w>>,
            [f \in 1 .. (b * d * h * w) |->
                LET i == (f - 1) \div (d * h * w)
                    c == ((f - 1) \div (h * w)) % d
                    y == ((f - 1) \div w) % h
                    xx == (f - 1) % w
                IN e.data[(i * n + y * w + xx) * d + c + 1]])]

\* rearrange(image_embeds, 'b (h w) d -> b d h w', h = h, w = w): einops fails
\* when h * w is not the length of the axis it splits
rearrange(e, h, w) ==
    LET b == e.shape[1]
        n == e.shape[2]
        d == e.shape[3]
    IN IF h * w # n
       THEN [raised |-> "EinopsError", value |-> NoTensor]
       ELSE [raised |-> "",
             value |-> Tensor(<<b, d, h, w>>,
                 [f \in 1 .. (b * d * h * w) |->
                     LET i == (f - 1) \div (d * h * w)
                         c == ((f - 1) \div (h * w)) % d
                         y == ((f - 1) \div w) % h
                         xx == (f - 1) % w
                     IN e.data[(i * n + y * w + xx) * d + c + 1]])]

\* self.decoder(self.post_quant_conv(z)): black boxes, kept symbolic
Reconstruction(z) == [op |-> "decoder", of |-> [op |-> "post_quant_conv", z |-> z]]
NoReconstruction == [op |-> "none"]

\* VQGAN.decode
decode(input, feed_seq, book) ==
    IF feed_seq
    THEN LET image_embeds == embedding(input, book)
             n == image_embeds.shape[2]
             h == IntSqrt(n)
             z == rearrange(image_embeds, h, h)
         IN IF z.raised # ""
            THEN [raised |-> z.raised, z |-> NoTensor, dec |-> NoReconstruction]
            ELSE [raised |-> "", z |-> z.value, dec |-> Reconstruction(z.value)]
    ELSE [raised |-> "", z |-> input, dec |-> Reconstruction(input)]

NoCall == [op |-> "none"]

-----------------------------------------------------------------------------
(* encode / decode / get_codebook_indices calls on a constructed model,    *)
(* made on a tensor the caller holds (an image batch or a token sequence)  *)
(* and on what the calls return.  The codebook has num_tokens entries of   *)
(* codebook_dim channels; images are square (args.resolution is one        *)
(* number) and the stand-in encoder keeps their size.  The Gumbel          *)
(* quantizer is modelled in evaluation mode only (hard argmax; its         *)
(* training-mode sample is a relaxed one-hot).                             *)

VQGANClasses == {"VQGAN", "EMAVQGAN", "GumbelVQGAN"}
VQVAEClasses == {"VQVAE", "GumbelVQVAE"}
DefaultArgs == [starting_temp |-> One, temp_min |-> 1, anneal_rate |-> 1,
                log_images |-> FALSE, smooth_l1_loss |-> FALSE]

IsImage(t) == Len(t.shape) = 4

InitCodec ==
    /\ cls \in VQGANClasses \cup VQVAEClasses
    /\ args = DefaultArgs
    /\ temperature = IF cls = "GumbelVQGAN" THEN args.starting_temp ELSE Unset
    /\ qtemp = IF cls \in GumbelClasses THEN args.starting_temp ELSE Unset
    /\ global_step = 0
    /\ phase = 0
    /\ cur_x = 1
    /\ last = "init"
    /\ fwd = <<>>
    /\ tset = <<>>
    /\ out = <<>>
    /\ training = TRUE
    /\ codebook \in Codebooks
    /\ arg \in Images \cup TokenSeqs
    /\ ret = NoCall

\* self.train(mode) / self.eval()
train(mode) ==
    /\ cls \in VQGANClasses
    /\ training # mode
    /\ training' = mode
    /\ UNCHANGED <<cls, args, stepvars, codebook, arg, ret>>

RECURSIVE ClusterSum(_, _, _, _, _)
\* channel c summed over the positions 1 .. p of the grid that are assigned to code k
ClusterSum(z, indices, k, c, p) ==
    IF p = 0 THEN 0
    ELSE LET hw == z.shape[3] * z.shape[4]
             here == IF indices.data[p] = k
                     THEN VectorAt(z, (p - 1) \div hw, (p - 1) % hw)[c]
                     ELSE 0
         IN here + ClusterSum(z, indices, k, c, p - 1)

\* the number of positions assigned to code k
ClusterSize(indices, k) == Cardinality({p \in 1 .. Len(indices.data) : indices.data[p] = k})

\* EMA variant, training mode: after the forward pass each entry is recomputed as
\* cluster_sum / max(cluster_size, eps) from the running statistics.  The model
\* takes quant_ema_decay = 0, with which the running statistics are those of the
\* batch: a used code moves to the mean of its vectors, an unused one has sum 0.
EmaUpdated(book, z, indices) ==
    [k \in 1 .. Len(book) |->
        [c \in 1 .. Len(book[k]) |->
            IF ClusterSize(indices, k - 1) = 0 THEN 0
            ELSE ClusterSum(z, indices, k - 1, c, Len(indices.data))
                     \div ClusterSize(indices, k - 1)] \o <<>>] \o <<>>

\* the codebook after self.quantize(h) has run on grid z
AfterQuantize(book, z, indices) ==
    IF cls = "EMAVQGAN" /\ training THEN EmaUpdated(book, z, indices) ELSE book

\* the grid the quantizer is given for image batch x
PreQuant(x) == Features(x, IF cls = "GumbelVQGAN" THEN num_tokens ELSE codebook_dim)

\* VQGAN.encode (inherited by EMAVQGAN and GumbelVQGAN)
VQGAN_encode ==
    /\ cls \in VQGANClasses
    /\ cls = "GumbelVQGAN" => ~training
    /\ IsImage(arg)
    /\ LET r == encode(arg, codebook)
       IN /\ ret' = [op |-> "encode", raised |-> "", x |-> arg, training |-> training,
                     quant |-> r.quant, indices |-> r.indices]
          /\ codebook' = AfterQuantize(codebook, PreQuant(arg), r.indices)
    /\ UNCHANGED <<cls, args, stepvars, training, arg>>

\* the arguments a caller passes to decode: the token sequence it holds, or what
\* the preceding encode returned (its indices as (b, n) tokens, or its grid)
DecodeInputs ==
    (IF IsImage(arg) THEN {}
     ELSE {[input |-> arg, feed_seq |-> TRUE, prev |-> NoCall]})
    \cup (IF ret.op = "encode"
          THEN LET b == ret.x.shape[1]
               IN {[input |-> View(ret.indices, b, Len(ret.indices.data) \div b).value,
                    feed_seq |-> TRUE, prev |-> ret],
                   [input |-> ret.quant, feed_seq |-> FALSE, prev |-> ret]}
          ELSE {})

\* VQGAN.decode (inherited by EMAVQGAN and GumbelVQGAN)
VQGAN_decode(a) ==
    /\ cls \in VQGANClasses
    /\ LET r == decode(a.input, a.feed_seq, codebook)
       IN ret' = [op |-> "decode", raised |-> r.raised, input |-> a.input,
                  feed_seq |-> a.feed_seq, z |-> r.z, dec |-> r.dec, prev |-> a.prev]
    /\ UNCHANGED <<cls, args, stepvars, training, codebook, arg>>

\* VQGAN.get_codebook_indices (inherited by EMAVQGAN and GumbelVQGAN)
VQGAN_get_codebook_indices ==
    /\ cls \in VQGANClasses
    /\ cls = "GumbelVQGAN" => ~training
    /\ IsImage(arg)
    /\ LET b == arg.shape[1]
           img == Normalized(arg)
           r == encode(img, codebook)
           n == Len(r.indices.data) \div b
           v == View(r.indices, b, n)
       IN /\ ret' = [op |-> "get_codebook_indices", raised |-> v.raised, img |-> arg,
                     indices |-> v.value, flat |-> r.indices, book |-> codebook]
          /\ codebook' = AfterQuantize(codebook, PreQuant(img), r.indices)
    /\ UNCHANGED <<cls, args, stepvars, training, arg>>

\* VQVAE.get_codebook_indices and GumbelVQVAE.get_codebook_indices: both call
\* self.model.encode(img); no attribute model is ever assigned, the read raises.
VQVAE_get_codebook_indices ==
    /\ cls \in VQVAEClasses
    /\ IsImage(arg)
    /\ ret' = [op |-> "get_codebook_indices", raised |-> "AttributeError", img |-> arg,
               indices |-> NoTensor, flat |-> NoTensor, book |-> codebook]
    /\ UNCHANGED <<cls, args, stepvars, training, codebook, arg>>

\* GumbelVQVAE.decode_code
GumbelVQVAE_decode_code ==
    /\ cls = "GumbelVQVAE"
    /\ ~IsImage(arg)
    /\ ret' = [op |-> "decode_code", raised |-> "NotImplementedError", input |-> arg,
               dec |-> NoReconstruction]
    /\ UNCHANGED <<cls, args, stepvars, training, codebook, arg>>

NextCodec ==
    \/ \E mode \in BOOLEAN : train(mode)
    \/ VQGAN_encode
    \/ \E a \in DecodeInputs : VQGAN_decode(a)
    \/ VQGAN_get_codebook_indices
    \/ VQVAE_get_codebook_indices
    \/ GumbelVQVAE_decode_code

SpecCodec == InitCodec /\ [][NextCodec]_vars

-----------------------------------------------------------------------------
(* Properties of the training / validation steps (checked under Spec) *)

\* both optimizer phases of the current batch have run
BatchDone ==
    /\ cls \in TwoOptimizerClasses
    /\ last = "training_step"
    /\ phase = 0
    /\ Len(out) = 2

LossOf(r) == IF args.log_images THEN r.ret.loss ELSE r.ret

\* C1: within one batch (training_step with optimizer_idx 0, then 1) the forward
\* pass runs exactly once, and both phases' losses use the same reconstruction
\* and the same quantization loss.
C1_ForwardOncePerBatch ==
    BatchDone =>
        /\ Len(fwd) = 1
        /\ out[1].xrec = out[2].xrec
        /\ out[1].qloss = out[2].qloss

\* C2: the temperature a Gumbel training step at global step g writes into the
\* quantizer is max(starting_temp * exp(-anneal_rate * g), temp_min), whatever
\* steps ran before.
C2_TemperatureIsFunctionOfStep ==
    (cls \in GumbelClasses /\ last = "training_step" /\ fwd # <<>>) =>
        qtemp = Max(args.starting_temp \div (2 ^ (args.anneal_rate * fwd[Len(fwd)].step)),
                    args.temp_min)

C4_LossTargetByPhase ==
    (cls \in TwoOptimizerClasses /\ last = "training_step") =>
        \A i \in 1 .. Len(out) :
            LET r == out[i]
                loss == LossOf(r)
            IN /\ r.optimizer_idx = i - 1
               /\ r.optimizer_idx = 0 =>
                      /\ loss.op = "add"
                      /\ loss.lhs.op = "CompositeLoss"
                      /\ loss.lhs.mode = "AUTOENCODER"
                      /\ loss.lhs.xrec = r.xrec
                      /\ loss.rhs = r.qloss
               /\ r.optimizer_idx = 1 =>
                      /\ loss.op = "CompositeLoss"
                      /\ loss.mode = "DISCRIMINATOR"
                      /\ loss.xrec = r.xrec

C4_Witness ==
    /\ BatchDone
    /\ cls = "GumbelVQGAN"
    /\ LossOf(out[1]).op = "add"
    /\ LossOf(out[2]).op = "CompositeLoss"
    /\ LossOf(out[2]).mode = "DISCRIMINATOR"

\* C9: for GumbelVQGAN, every training forward pass reads the temperature that
\* was annealed in the same training_step (not a value an earlier validation step
\* left in the quantizer), and a validation step leaves self.temperature unchanged.
C9_TrainingReadsOwnAnneal ==
    /\ [](cls = "GumbelVQGAN" =>
             \A i \in 1 .. Len(fwd) : fwd[i].training => fwd[i].temp = tset[i])
    /\ [][(cls = "GumbelVQGAN" /\ last' = "validation_step")
             => temperature' = temperature]_vars

\* a training step that found the validation value 1.0 in the quantizer (the
\* configured temperatures stay below it) and ran its forward pass on its own value
C9_Witness ==
    /\ cls = "GumbelVQGAN"
    /\ last = "training_step"
    /\ args.starting_temp < One
    /\ \E i \in 1 .. Len(fwd) :
          /\ fwd[i].training
          /\ fwd[i].before = One
          /\ fwd[i].temp = tset[i]
          /\ fwd[i].temp < One

\* C10: for the Gumbel variant the temperature is annealed once per batch: the
\* optimizer_idx 0 and 1 invocations of one batch see the same temperature, and
\* the second invocation does not anneal it again.
C10_AnnealOncePerBatch ==
    (BatchDone /\ cls = "GumbelVQGAN") =>
        /\ fwd[1].temp = fwd[2].temp
        /\ temperature = tset[1]

-----------------------------------------------------------------------------
(* Properties of encode / decode / get_codebook_indices (checked under     *)
(* SpecCodec)                                                              *)

PerfectSquare(n) == \E r \in 1 .. n : r * r = n

\* a decode call on the token form of what the preceding encode returned
RoundTrip ==
    /\ ret.op = "decode"
    /\ ret.feed_seq
    /\ ret.prev.op = "encode"

\* C5: on every autoencoder class get_codebook_indices completes without error
\* and returns a (b, n) token grid, n the tokens per image, whose entry (i, k) is
\* the code index the quantizer assigned to position k of image i of 2*img - 1.
C5_IndicesAreTokenGrid ==
    ret.op = "get_codebook_indices" =>
        LET b == ret.img.shape[1]
            n == ret.img.shape[3] * ret.img.shape[4]
            q == encode(Normalized(ret.img), ret.book).indices
        IN /\ ret.raised = ""
           /\ ret.indices.shape = <<b, n>>
           /\ \A i \in 0 .. (b - 1) : \A k \in 0 .. (n - 1) :
                  ret.indices.data[i * n + k + 1] = q.data[i * n + k + 1]

C7_NonSquareFails ==
    ret.op = "decode" =>
        /\ (ret.feed_seq /\ ~PerfectSquare(ret.input.shape[2])) =>
               /\ ret.raised # ""
               /\ ret.z = NoTensor
               /\ ret.dec = NoReconstruction
        /\ ~ret.feed_seq =>
               /\ ret.raised = ""
               /\ ret.z = ret.input
               /\ ret.dec = Reconstruction(ret.input)

\* a decode call on a sequence of three tokens per image has failed
C7_Witness ==
    /\ ret.op = "decode"
    /\ ret.feed_seq
    /\ ret.input.shape[2] = 3
    /\ ret.raised = "EinopsError"
    /\ ret.dec = NoReconstruction

\* C8: on every Gumbel variant a decode-from-codes call (GumbelVQVAE.decode_code,
\* GumbelVQGAN.decode with feed_seq=True) ends in an explicitly signalled
\* unsupported-operation error and returns no reconstruction.
C8_GumbelDecodeUnsupported ==
    (cls \in GumbelClasses
        /\ ((ret.op = "decode" /\ ret.feed_seq) \/ ret.op = "decode_code")) =>
        /\ ret.raised = "NotImplementedError"
        /\ ret.dec = NoReconstruction

-----------------------------------------------------------------------------
(* Range and monotonicity of the Gumbel temperature (checked under Spec) *)

\* C11: for GumbelVQGAN with starting_temp >= temp_min (anneal_rate >= 0,
\* global_step >= 0), after any sequence of training and validation steps
\* self.temperature lies in [temp_min, starting_temp], and after a training step
\* so does the quantizer's temperature, which is then the same value; no step
\* makes self.temperature larger, and once it equals temp_min every later step
\* leaves it at temp_min.
C11_TemperatureRangeAndDecay ==
    /\ []((cls = "GumbelVQGAN" /\ args.starting_temp >= args.temp_min
              /\ args.anneal_rate >= 0 /\ global_step >= 0) =>
             /\ args.temp_min <= temperature
             /\ temperature <= args.starting_temp
             /\ \A i \in 1 .. Len(tset) :
                    args.temp_min <= tset[i] /\ tset[i] <= args.starting_temp
             /\ last = "training_step" => qtemp = temperature)
    /\ [][(cls = "GumbelVQGAN" /\ args.starting_temp >= args.temp_min) =>
             /\ temperature' <= temperature
             /\ temperature = args.temp_min => temperature' = args.temp_min]_vars

\* a batch at global step >= 1 whose first training step found a temperature
\* above temp_min, wrote temp_min, and whose second training step left it there
C11_Witness ==
    /\ BatchDone
    /\ cls = "GumbelVQGAN"
    /\ args.anneal_rate > 0
    /\ args.temp_min < args.starting_temp
    /\ fwd[1].step >= 1
    /\ fwd[1].before > args.temp_min
    /\ tset[1] = args.temp_min
    /\ tset[2] = args.temp_min
    /\ temperature = args.temp_min

====
